---- MODULE Spec2Model ----
(***************************************************************************)
(* The diagnostic services of src/output: the battery (BMS), motor and     *)
(* tire services.  Each is a program of its own; `service` says which one  *)
(* a behaviour is a run of:                                                *)
(*   "BMS"         BMSDiagnosticService, its status evaluation called      *)
(*                 directly                                                *)
(*   "BMSHandlers" BMSDiagnosticService, its init and request handlers     *)
(*   "BMSService"  BMSDiagnosticServiceService, the vsomeip service of     *)
(*                 protocol_abstraction (init / start / stop / on_get...)  *)
(*   "BMSML"       BMSDiagnosticServiceML                                  *)
(*   "Motor"       MotorHealthDiagnosticService                            *)
(*   "Tire"        TirePressureDiagnosticService, calls made one after     *)
(*                 the other as in its main                                *)
(*   "TireThreads" TirePressureDiagnosticService, a setTirePressures call  *)
(*                 running beside a GetTireStatus call                     *)
(*                                                                         *)
(* Physical quantities are C++ floats.  A float is modelled as a record    *)
(* [nan, v]: v is the value in hundredths (60.01 is 6001), nan marks a     *)
(* NaN, for which every ordered comparison of C++ is false.                *)
(***************************************************************************)
EXTENDS Integers, Sequences, FiniteSets, TLC

VARIABLES
    service,        \* which program runs, one of Services
    bms_status,     \* BMS: `status` of the latest get_battery_status()
    bms_warnings,   \* BMS: the emit_warning codes of that call, in call order
    bms_first,      \* BMS: <<>> or <<[status, warnings]>> of the first call
    bms_prev,       \* BMS: <<>> or <<warnings>> of the call before the latest
    someip_client_, \* Motor: the member someip_client_ ("null" or "client")
    motor_temp,     \* Motor: <<>> or <<t>>, the latest reading handled
    motor_prev,     \* Motor: <<>> or <<t>>, the reading handled before it
    motor_sent,     \* Motor: the event codes the latest handler call sent
    motor_prev_sent,\* Motor: the event codes the handler call before it sent
    run_events,     \* Motor: events sent over the current run of consecutive
                    \*        readings with one and the same evaluation
    tire_pressure,  \* Tire: the members tire_pressure_fl/fr/rl/rr
    tire_written,   \* Tire: setTirePressures has run at least once
    tire_warning,   \* Tire: <<WarningEvent>> if the latest call was emitTireWarning()
                    \*       and returned it, else <<>>
    tire_status,    \* Tire: <<TireStatus>> if the latest call was GetTireStatus()
                    \*       and returned it, else <<>>
    motor_init_report, \* Motor: what init(runtime, name) has told its caller
    client_,        \* BMSHandlers: the member client_ ("null" or "client")
    client_handlers,\* BMSHandlers: the <<service, method>> pairs registered with client_
    bms_response,   \* BMSHandlers: <<>> or <<r>>, what the latest request led to
    app_,           \* BMSService: the member app_: "null", "created" (an application
                    \*             whose init() failed) or "ready"
    app_handlers,   \* BMSService: the method ids registered with app_
    app_offered,    \* BMSService: offer_service was called on app_
    app_run,        \* BMSService: "idle", "started" or "stopped": the latest of
                    \*             start() / stop() called on app_
    init_result,    \* BMSService: <<>> or <<b>>, b the latest return value of init()
    svc_fault,      \* BMSService: "none", or what a null app_ dereference led to
    svc_response,   \* BMSService: <<>> or <<r>>, what the latest request led to
    svc_pending,    \* BMSService: the requests received and not yet given to a handler
    svc_inflight,   \* BMSService: <<>> or <<h>>, the handler call that has built its
                    \*             response and not yet sent it
    svc_stops,      \* BMSService: stop() calls since the latest init() or start()
    app_calls,      \* BMSService: the calls the latest init() made on the application, in order
    motor_run,      \* Motor: "idle", "started" or "stopped": the latest of start() /
                    \*        stop() called on someip_client_
    ml_methods,     \* BMSML: the method ids registered with the server
    ml_response,    \* BMSML: <<>> or <<r>>, the outcome of the latest call
    ml_session,     \* BMSML: "null", or "session" once init() has made one
    gate,           \* TireML: <<>> or <<g>>, the latest prediction and what it did to a level
    set_pc,         \* TireThreads: members the running setTirePressures has written
    set_args,       \* TireThreads: its arguments
    get_buf,        \* TireThreads: members the running GetTireStatus has copied
    tire_history    \* TireThreads: the snapshots stored completely so far

bms_vars == <<bms_status, bms_warnings, bms_first, bms_prev>>
motor_vars ==
    <<someip_client_, motor_temp, motor_prev, motor_sent, motor_prev_sent, run_events,
      motor_init_report, motor_run>>
tire_vars == <<tire_pressure, tire_written, tire_warning, tire_status>>
handler_vars == <<client_, client_handlers, bms_response>>
svc_vars ==
    <<app_, app_handlers, app_offered, app_run, init_result, svc_fault, svc_response,
      svc_pending, svc_inflight, svc_stops, app_calls>>
ml_vars == <<ml_methods, ml_response, ml_session, gate>>
thread_vars == <<set_pc, set_args, get_buf, tire_history>>
vars ==
    <<service, bms_vars, motor_vars, tire_vars, handler_vars, svc_vars, ml_vars,
      thread_vars>>

Services == {"BMS", "BMSHandlers", "BMSService", "BMSML", "Motor", "Tire", "TireThreads", "TireML"}

---------------------------------------------------------------------------
(* Floats *)

F(x) == [nan |-> FALSE, v |-> x]
NaN == [nan |-> TRUE, v |-> 0]

\* a > k, a < k, a >= k, a <= k for a float a and a literal k (in hundredths)
Gt(a, k) == ~a.nan /\ a.v > k
Lt(a, k) == ~a.nan /\ a.v < k
Ge(a, k) == ~a.nan /\ a.v >= k
Le(a, k) == ~a.nan /\ a.v <= k

\* std::abs(a - b) > k for floats a, b
AbsDiffGt(a, b, k) ==
    /\ ~a.nan
    /\ ~b.nan
    /\ (IF a.v >= b.v THEN a.v - b.v ELSE b.v - a.v) > k

Max(S) == CHOOSE x \in S : \A y \in S : y <= x
Min2(a, b) == IF a <= b THEN a ELSE b
Range(s) == {s[i] : i \in 1..Len(s)}

---------------------------------------------------------------------------
(* Alert levels and warning codes *)

\* AlertLevel, a total order; the ordinal is the wire encoding
NORMAL == 0
WARNING == 1
CRITICAL == 2
EMERGENCY == 3

\* BMS warning codes (emit_warning's first argument)
LOW_BATTERY == 1
HIGH_TEMPERATURE == 2
CRITICAL_TEMPERATURE == 3

\* Motor event codes (emit_event's first argument), 0x0201 and 0x0202
MOTOR_TEMPERATURE_HIGH == 513
MOTOR_CRITICAL_TEMPERATURE == 514

\* Tire warning codes, 0x0101 and 0x0102; a value-initialized WarningEvent has 0
LOW_TIRE_PRESSURE == 257
TIRE_PRESSURE_IMBALANCE == 258
NO_WARNING == 0

\* The severity a warning code stands for, read off its message
Severity(code) ==
    CASE code = LOW_BATTERY -> WARNING                  \* "Low battery"
      [] code = HIGH_TEMPERATURE -> WARNING             \* "High temperature"
      [] code = CRITICAL_TEMPERATURE -> CRITICAL        \* "Critical temperature - shutdown required"
      [] code = MOTOR_TEMPERATURE_HIGH -> WARNING       \* "Motor temperature high"
      [] code = MOTOR_CRITICAL_TEMPERATURE -> CRITICAL  \* "Motor critical temperature"
      [] code = LOW_TIRE_PRESSURE -> WARNING            \* "Low tire pressure"
      [] code = TIRE_PRESSURE_IMBALANCE -> WARNING      \* "Tire pressure imbalance"
      [] OTHER -> NORMAL

\* The reason a warning code stands for
Reason(code) ==
    CASE code = LOW_BATTERY -> "LowStateOfCharge"
      [] code = HIGH_TEMPERATURE -> "OverTemperature"
      [] code = CRITICAL_TEMPERATURE -> "OverTemperature"
      [] code = MOTOR_TEMPERATURE_HIGH -> "OverTemperature"
      [] code = MOTOR_CRITICAL_TEMPERATURE -> "OverTemperature"
      [] code = LOW_TIRE_PRESSURE -> "LowPressure"
      [] code = TIRE_PRESSURE_IMBALANCE -> "PressureImbalance"
      [] OTHER -> "None"

\* The alert level of one evaluation: the highest severity among the warnings
\* it raised, NORMAL when it raised none
AlertLevelOf(codes) == Max({NORMAL} \cup {Severity(c) : c \in Range(codes)})
ReasonsOf(codes) == {Reason(c) : c \in Range(codes)}

---------------------------------------------------------------------------
(* BMSDiagnosticService::get_battery_status *)

\* The readings the threshold rule is checked on
Temperatures ==
    {NaN, F(-1500), F(-1000), F(3000), F(4500), F(4501), F(6000), F(6001), F(6500)}
StatesOfCharge == {F(500), F(1999), F(2000), F(5000)}
Currents == {F(1000), F(10000)}
Voltages == {F(42000)}
Snapshots ==
    [soc : StatesOfCharge, voltage : Voltages, current : Currents,
     temperature : Temperatures]

\* The readings get_battery_status() fills in itself: 50.0, 420.0, 10.0, 30.0
SampleStatus ==
    [soc |-> F(5000), voltage |-> F(42000), current |-> F(1000),
     temperature |-> F(3000)]

\* if (status.soc <= 20): the low-battery cut made inclusive
IsLowBattery_inclusive(status) == Le(status.soc, 2000)
\* if (status.soc < 20)
IsLowBattery(status) == Lt(status.soc, 2000)

\* if (status.temperature >= 45): the warning cut made inclusive
IsHighTemperature_inclusive(status) == Ge(status.temperature, 4500)
\* if (status.temperature > 45)
IsHighTemperature(status) == Gt(status.temperature, 4500)

\* if (status.temperature >= 60): the critical cut made inclusive
IsCriticalTemperature_inclusive(status) == Ge(status.temperature, 6000)
\* if (status.temperature > 60)
IsCriticalTemperature(status) == Gt(status.temperature, 6000)

\* The three checks as one if / else if / else if chain: the first that holds
\* hides the others
battery_warnings_chain(status) ==
    IF IsLowBattery(status) THEN <<LOW_BATTERY>>
    ELSE IF IsHighTemperature(status) THEN <<HIGH_TEMPERATURE>>
    ELSE IF IsCriticalTemperature(status) THEN <<CRITICAL_TEMPERATURE>>
    ELSE <<>>

\* The two temperature checks as if / else if (the shape of
\* handle_motor_temperature): the critical check is never reached
battery_warnings_elseif(status) ==
    (IF IsLowBattery(status) THEN <<LOW_BATTERY>> ELSE <<>>)
    \o (IF IsHighTemperature(status) THEN <<HIGH_TEMPERATURE>>
        ELSE IF IsCriticalTemperature(status) THEN <<CRITICAL_TEMPERATURE>>
        ELSE <<>>)

\* A latching rule: once the critical warning was raised, every later call
\* raises it again
battery_warnings_latched(status) ==
    (IF IsLowBattery(status) THEN <<LOW_BATTERY>> ELSE <<>>)
    \o (IF IsHighTemperature(status) THEN <<HIGH_TEMPERATURE>> ELSE <<>>)
    \o (IF IsCriticalTemperature(status) \/ CRITICAL_TEMPERATURE \in Range(bms_warnings)
        THEN <<CRITICAL_TEMPERATURE>> ELSE <<>>)

\* emit_warning(code, message): the events the body hands to the transport for
\* the subscribers of the warning event.  The body is empty.
emit_warning(code) == <<>>

\* The emit_warning calls of get_battery_status for `status`, in order: three
\* independent if statements
battery_warnings(status) ==
    (IF IsLowBattery(status) THEN <<LOW_BATTERY>> ELSE <<>>)
    \o (IF IsHighTemperature(status) THEN <<HIGH_TEMPERATURE>> ELSE <<>>)
    \o (IF IsCriticalTemperature(status) THEN <<CRITICAL_TEMPERATURE>> ELSE <<>>)

\* One call of get_battery_status(): lines 74-77 fill in the readings, lines
\* 79-87 apply the threshold rule to them, line 89 returns the status.  The
\* generated body fills in the fixed sample SampleStatus; the readings are the
\* input s here, so that the rule is run on every snapshot of Snapshots (the
\* sample is one of them).
BMS_get_battery_status ==
    /\ service = "BMS"
    /\ \E s \in Snapshots :
        /\ bms_status' = s
        /\ bms_warnings' = battery_warnings(s)
        /\ bms_first' =
              IF bms_first = <<>>
              THEN <<[status |-> s, warnings |-> battery_warnings(s)]>>
              ELSE bms_first
        /\ bms_prev' = IF bms_first = <<>> THEN <<>> ELSE <<bms_warnings>>
    /\ UNCHANGED <<service, motor_vars, tire_vars, handler_vars, svc_vars, ml_vars,
                   thread_vars>>

---------------------------------------------------------------------------
(* MotorHealthDiagnosticService *)

MaxRun == 3

MotorReadings == {NaN, F(7500), F(8500), F(8501), F(9000), F(10000), F(10001), F(10500)}

\* The emit_event calls of handle_motor_temperature(temperature):
\* if (temperature > 85.0f) ... else if (temperature > 100.0f) ...
motor_events(temperature) ==
    IF Gt(temperature, 8500) THEN <<MOTOR_TEMPERATURE_HIGH>>
    ELSE IF Gt(temperature, 10000) THEN <<MOTOR_CRITICAL_TEMPERATURE>>
    ELSE <<>>

\* emit_event sends only if (someip_client_)
emit_event(codes) == IF someip_client_ = "client" THEN codes ELSE <<>>

\* init(runtime, name): someip_client_ = runtime->create_client(client_), which
\* may be null; the function is void and returns in the same way either way
Motor_init ==
    /\ service = "Motor"
    /\ someip_client_' \in {"null", "client"}
    /\ motor_init_report' = "returned"
    /\ UNCHANGED <<service, bms_vars, tire_vars, handler_vars, svc_vars, ml_vars,
                   thread_vars, motor_temp, motor_prev, motor_sent, motor_prev_sent,
                   run_events, motor_run>>

\* start(): if (someip_client_) someip_client_->start()
Motor_start ==
    /\ service = "Motor"
    /\ motor_run' = IF someip_client_ = "client" THEN "started" ELSE motor_run
    /\ UNCHANGED <<service, bms_vars, tire_vars, handler_vars, svc_vars, ml_vars,
                   thread_vars, someip_client_, motor_temp, motor_prev, motor_sent,
                   motor_prev_sent, run_events, motor_init_report>>

\* stop(): if (someip_client_) someip_client_->stop()
Motor_stop ==
    /\ service = "Motor"
    /\ motor_run' = IF someip_client_ = "client" THEN "stopped" ELSE motor_run
    /\ UNCHANGED <<service, bms_vars, tire_vars, handler_vars, svc_vars, ml_vars,
                   thread_vars, someip_client_, motor_temp, motor_prev, motor_sent,
                   motor_prev_sent, run_events, motor_init_report>>

\* handle_motor_temperature(t)
Motor_handle_motor_temperature ==
    /\ service = "Motor"
    /\ \E t \in MotorReadings :
        LET sent == emit_event(motor_events(t))
            same == motor_temp # <<>> /\ motor_events(motor_temp[1]) = motor_events(t)
        IN  /\ motor_prev' = motor_temp
            /\ motor_temp' = <<t>>
            /\ motor_sent' = sent
            /\ motor_prev_sent' = motor_sent
            /\ run_events' =
                  IF same THEN Min2(run_events + Len(sent), MaxRun) ELSE Len(sent)
    /\ UNCHANGED <<service, bms_vars, tire_vars, handler_vars, svc_vars, ml_vars,
                   thread_vars, someip_client_, motor_init_report, motor_run>>

---------------------------------------------------------------------------
(* TirePressureDiagnosticService *)

Pressures == {NaN, F(150), F(200), F(300), F(325), F(350)}

\* emitTireWarning() with the two checks in the other order
emitTireWarning_imbalance_first(p) ==
    IF AbsDiffGt(p.fl, p.fr, 40) \/ AbsDiffGt(p.rl, p.rr, 40)
    THEN [warning_code |-> TIRE_PRESSURE_IMBALANCE,
          warning_message |-> "Tire pressure imbalance"]
    ELSE IF Lt(p.fl, 200) \/ Lt(p.fr, 200) \/ Lt(p.rl, 200) \/ Lt(p.rr, 200)
    THEN [warning_code |-> LOW_TIRE_PRESSURE, warning_message |-> "Low tire pressure"]
    ELSE [warning_code |-> NO_WARNING, warning_message |-> ""]

\* emitTireWarning() on the stored pressures p
emitTireWarning(p) ==
    IF Lt(p.fl, 200) \/ Lt(p.fr, 200) \/ Lt(p.rl, 200) \/ Lt(p.rr, 200)
    THEN [warning_code |-> LOW_TIRE_PRESSURE, warning_message |-> "Low tire pressure"]
    ELSE IF AbsDiffGt(p.fl, p.fr, 40) \/ AbsDiffGt(p.rl, p.rr, 40)
    THEN [warning_code |-> TIRE_PRESSURE_IMBALANCE,
          warning_message |-> "Tire pressure imbalance"]
    ELSE [warning_code |-> NO_WARNING, warning_message |-> ""]

\* calculateFailureRisk(): return 0.0
calculateFailureRisk == F(0)

\* setTirePressures(fl, fr, rl, rr)
Tire_setTirePressures ==
    /\ service = "Tire"
    /\ \E fl \in Pressures, fr \in Pressures, rl \in Pressures, rr \in Pressures :
        tire_pressure' = [fl |-> fl, fr |-> fr, rl |-> rl, rr |-> rr]
    /\ tire_written' = TRUE
    /\ tire_warning' = <<>>
    /\ tire_status' = <<>>
    /\ UNCHANGED <<service, bms_vars, motor_vars, handler_vars, svc_vars, ml_vars,
                   thread_vars>>

\* emitTireWarning() const
Tire_emitTireWarning ==
    /\ service = "Tire"
    /\ tire_warning' = <<emitTireWarning(tire_pressure)>>
    /\ tire_status' = <<>>
    /\ UNCHANGED <<service, bms_vars, motor_vars, handler_vars, svc_vars, ml_vars,
                   thread_vars, tire_pressure, tire_written>>

\* GetTireStatus() const
Tire_GetTireStatus ==
    /\ service = "Tire"
    /\ tire_status' =
          <<[tire_pressure_fl |-> tire_pressure.fl,
             tire_pressure_fr |-> tire_pressure.fr,
             tire_pressure_rl |-> tire_pressure.rl,
             tire_pressure_rr |-> tire_pressure.rr,
             failure_risk |-> calculateFailureRisk]>>
    /\ tire_warning' = <<>>
    /\ UNCHANGED <<service, bms_vars, motor_vars, handler_vars, svc_vars, ml_vars,
                   thread_vars, tire_pressure, tire_written>>

---------------------------------------------------------------------------
(* BMSDiagnosticService: init and the request handlers *)

\* The service id and the method ids the handlers are registered for
SERVICE_ID == 4097
INSTANCE_ID == 1
GETBATTERYSTATUS_ID == 1
GETCELLVOLTAGES_ID == 2
GETESTIMATEDRANGE_ID == 3

\* What a request may name: the service or another one, one of the three
\* methods or a fourth id; the payload of an estimated-range request is empty
\* or one byte, the other requests carry none
ServiceIds == {SERVICE_ID, SERVICE_ID + 1}
MethodIds ==
    {GETBATTERYSTATUS_ID, GETCELLVOLTAGES_ID, GETESTIMATEDRANGE_ID,
     GETESTIMATEDRANGE_ID + 1}
Payloads == {<<>>, <<0>>, <<1>>, <<2>>, <<3>>, <<255>>}
ClientIds == {1, 2}
Requests ==
    {r \in [service : ServiceIds, instance : {INSTANCE_ID}, method : MethodIds,
            client : ClientIds, payload : Payloads] :
        r.method = GETESTIMATEDRANGE_ID \/ r.payload = <<>>}

\* An object that is read without ever having been written holds any value:
\* the bytes and floats drawn for it
IndeterminateBytes == {0, 1, 2, 3, 255}
IndeterminateFloats == {NaN, F(0), F(40000)}

\* get_cell_voltages(): {3.7, 3.8, 3.9}
get_cell_voltages == <<F(370), F(380), F(390)>>

\* get_estimated_range(driving_mode): the values range.range_km may hold on
\* return; no branch writes it for a mode other than 0, 1, 2
get_estimated_range(driving_mode) ==
    IF driving_mode = 0 THEN {F(20000)}
    ELSE IF driving_mode = 1 THEN {F(40000)}
    ELSE IF driving_mode = 2 THEN {F(60000)}
    ELSE IndeterminateFloats

\* handle_get_estimated_range's driving_mode: 1, overwritten by the first
\* payload byte when there is one
driving_mode_of(payload) == IF Len(payload) >= 1 THEN payload[1] ELSE 1

\* The transport hands a request to the handler registered for its pair
Registered(req) == <<req.service, req.method>> \in client_handlers

\* init(client)
\* someip::message::create(service, method, instance, client), as the handlers
\* call it: the message client_->send is given.  Its payload is modelled
\* beside it.
message_create(service_id, method_id, instance_id, client_id) ==
    [service |-> service_id, method |-> method_id, instance |-> instance_id,
     client |-> client_id]

BMS_init ==
    /\ service = "BMSHandlers"
    /\ client_' = "client"
    /\ client_handlers' =
          {<<SERVICE_ID, GETBATTERYSTATUS_ID>>, <<SERVICE_ID, GETCELLVOLTAGES_ID>>,
           <<SERVICE_ID, GETESTIMATEDRANGE_ID>>}
    /\ bms_response' = <<>>
    /\ UNCHANGED <<service, bms_vars, motor_vars, tire_vars, svc_vars, ml_vars,
                   thread_vars>>

\* handle_get_battery_status(request): the response carries the status of
\* get_battery_status() (the readings are the input s, as above) and its
\* health_status, a member no line assigns.  The packing of the four readings
\* into bytes is left out: the response is modelled by the values packed.
BMS_handle_get_battery_status ==
    /\ service = "BMSHandlers"
    /\ \E req \in Requests, s \in Snapshots, h \in IndeterminateBytes :
        /\ req.method = GETBATTERYSTATUS_ID
        /\ Registered(req)
        /\ bms_status' = s
        /\ bms_warnings' = battery_warnings(s)
        /\ bms_response' =
              <<[request |-> req, kind |-> "response",
                 sent |-> <<message_create(req.service, req.method, req.instance,
                                           req.client)>>,
                 payload |-> [status |-> s, health_status |-> h]]>>
    /\ UNCHANGED <<service, bms_first, bms_prev, motor_vars, tire_vars, client_,
                   client_handlers, svc_vars, ml_vars, thread_vars>>

\* handle_get_cell_voltages(request)
BMS_handle_get_cell_voltages ==
    /\ service = "BMSHandlers"
    /\ \E req \in Requests :
        /\ req.method = GETCELLVOLTAGES_ID
        /\ Registered(req)
        /\ bms_response' =
              <<[request |-> req, kind |-> "response",
                 sent |-> <<message_create(req.service, req.method, req.instance,
                                           req.client)>>,
                 payload |-> [cell_voltages |-> get_cell_voltages]]>>
    /\ UNCHANGED <<service, bms_vars, motor_vars, tire_vars, client_, client_handlers,
                   svc_vars, ml_vars, thread_vars>>

\* handle_get_estimated_range(request)
BMS_handle_get_estimated_range ==
    /\ service = "BMSHandlers"
    /\ \E req \in Requests :
        /\ req.method = GETESTIMATEDRANGE_ID
        /\ Registered(req)
        /\ \E km \in get_estimated_range(driving_mode_of(req.payload)) :
              bms_response' =
                  <<[request |-> req, kind |-> "response",
                     sent |-> <<message_create(req.service, req.method, req.instance,
                                               req.client)>>,
                     payload |-> [driving_mode |-> driving_mode_of(req.payload),
                                  range_km |-> km]]>>
    /\ UNCHANGED <<service, bms_vars, motor_vars, tire_vars, client_, client_handlers,
                   svc_vars, ml_vars, thread_vars>>

\* A request whose pair has no handler registered: no code of the service runs
\* and the service sends nothing
BMS_unrouted_request ==
    /\ service = "BMSHandlers"
    /\ \E req \in Requests :
        /\ ~Registered(req)
        /\ bms_response' = <<[request |-> req, kind |-> "none"]>>
    /\ UNCHANGED <<service, bms_vars, motor_vars, tire_vars, client_, client_handlers,
                   svc_vars, ml_vars, thread_vars>>

---------------------------------------------------------------------------
(* BMSDiagnosticServiceService: the vsomeip service *)

\* The lifecycle state, read off what init(), start() and stop() have called
\* on the application
Lifecycle ==
    IF app_run = "started" THEN "Running"
    ELSE IF app_run = "stopped" THEN "Stopped"
    ELSE IF app_offered THEN "Offered"
    ELSE "Uninitialized"

\* The most requests held for the dispatch loop at a time, and the most
\* stop() calls in a row
MaxPending == 2
MaxStops == 2

\* init() with offer_service moved in front of the registrations
init_calls_offer_first ==
    <<[call |-> "offer_service", service |-> SERVICE_ID, instance |-> INSTANCE_ID,
       method |-> 0, handler |-> "none"],
      [call |-> "register_message_handler", service |-> SERVICE_ID,
       instance |-> INSTANCE_ID, method |-> GETBATTERYSTATUS_ID,
       handler |-> "on_getbatterystatus"],
      [call |-> "register_message_handler", service |-> SERVICE_ID,
       instance |-> INSTANCE_ID, method |-> GETCELLVOLTAGES_ID,
       handler |-> "on_getcellvoltages"],
      [call |-> "register_message_handler", service |-> SERVICE_ID,
       instance |-> INSTANCE_ID, method |-> GETESTIMATEDRANGE_ID,
       handler |-> "on_getestimatedrange"]>>

\* The calls init() makes on the application once app_->init() has succeeded,
\* in order: three register_message_handler calls, then offer_service
init_calls ==
    <<[call |-> "register_message_handler", service |-> SERVICE_ID,
       instance |-> INSTANCE_ID, method |-> GETBATTERYSTATUS_ID,
       handler |-> "on_getbatterystatus"],
      [call |-> "register_message_handler", service |-> SERVICE_ID,
       instance |-> INSTANCE_ID, method |-> GETCELLVOLTAGES_ID,
       handler |-> "on_getcellvoltages"],
      [call |-> "register_message_handler", service |-> SERVICE_ID,
       instance |-> INSTANCE_ID, method |-> GETESTIMATEDRANGE_ID,
       handler |-> "on_getestimatedrange"],
      [call |-> "offer_service", service |-> SERVICE_ID, instance |-> INSTANCE_ID,
       method |-> 0, handler |-> "none"]>>

\* init(): create_application gives no application, or one whose init() fails,
\* or one whose init() succeeds; only then are the three handlers registered
\* and the service offered.  app_ is a new application each time: what the old
\* one held for dispatch is gone with it.  init() is the caller's set-up step
\* and is not run beside a handler.
Svc_init ==
    /\ service = "BMSService"
    /\ svc_fault # "crashed"
    /\ svc_inflight = <<>>
    /\ \E outcome \in {"no_application", "init_failed", "ok"} :
        /\ app_' = CASE outcome = "no_application" -> "null"
                     [] outcome = "init_failed" -> "created"
                     [] OTHER -> "ready"
        /\ app_calls' = IF outcome = "ok" THEN init_calls ELSE <<>>
        /\ app_handlers' =
              IF outcome = "ok"
              THEN {c.method : c \in {d \in Range(init_calls) :
                                         d.call = "register_message_handler"}}
              ELSE {}
        /\ app_offered' =
              (outcome = "ok" /\ \E c \in Range(init_calls) : c.call = "offer_service")
        /\ init_result' = <<outcome = "ok">>
    /\ app_run' = "idle"
    /\ svc_response' = <<>>
    /\ svc_pending' = {}
    /\ svc_stops' = 0
    /\ UNCHANGED <<service, bms_vars, motor_vars, tire_vars, handler_vars, ml_vars,
                   thread_vars, svc_fault, svc_inflight>>

\* start(): app_->start() with no check of app_.  With app_ null the call is a
\* null dereference: the process ends there, or it goes on as if nothing had
\* been called.
Svc_start ==
    /\ service = "BMSService"
    /\ svc_fault # "crashed"
    /\ IF app_ = "null"
       THEN /\ svc_fault' \in {"crashed", "survived"}
            /\ UNCHANGED app_run
       ELSE /\ app_run' = "started"
            /\ UNCHANGED svc_fault
    /\ svc_response' = <<>>
    /\ svc_stops' = 0
    /\ UNCHANGED <<service, bms_vars, motor_vars, tire_vars, handler_vars, ml_vars,
                   thread_vars, app_, app_handlers, app_offered, init_result, app_calls,
                   svc_pending, svc_inflight>>

\* stop() as start() is written: app_->stop() with no check of app_
Svc_stop_unchecked ==
    /\ service = "BMSService"
    /\ svc_fault # "crashed"
    /\ svc_stops < MaxStops
    /\ IF app_ = "null"
       THEN /\ svc_fault' \in {"crashed", "survived"}
            /\ UNCHANGED app_run
       ELSE /\ app_run' = "stopped"
            /\ UNCHANGED svc_fault
    /\ svc_response' = <<>>
    /\ svc_stops' = svc_stops + 1
    /\ UNCHANGED <<service, bms_vars, motor_vars, tire_vars, handler_vars, ml_vars,
                   thread_vars, app_, app_handlers, app_offered, init_result, app_calls,
                   svc_pending, svc_inflight>>

\* stop(): if (app_) app_->stop().  It touches neither the requests held for
\* dispatch nor a handler call that is under way.
Svc_stop ==
    /\ service = "BMSService"
    /\ svc_fault # "crashed"
    /\ svc_stops < MaxStops
    /\ app_run' = IF app_ # "null" THEN "stopped" ELSE app_run
    /\ svc_response' = <<>>
    /\ svc_stops' = svc_stops + 1
    /\ UNCHANGED <<service, bms_vars, motor_vars, tire_vars, handler_vars, ml_vars,
                   thread_vars, app_, app_handlers, app_offered, init_result, app_calls, svc_fault,
                   svc_pending, svc_inflight>>

\* The requests that reach the vsomeip service: they carry no payload
SvcRequests == {r \in Requests : r.payload = <<>>}

\* The application runs a handler while it is started, for a request of the
\* offered service whose method has one
Dispatched(req) ==
    /\ app_run = "started"
    /\ req.service = SERVICE_ID
    /\ req.method \in app_handlers

\* vsomeip::runtime::get()->create_response(request): a message addressed to
\* the request; the handlers put no payload in it
create_response(req) ==
    [service |-> req.service, instance |-> req.instance, method |-> req.method,
     client |-> req.client, payload |-> <<>>]

\* A handler body that returns without sending
on_request_silent(req) == <<>>

\* on_getbatterystatus / on_getcellvoltages / on_getestimatedrange(request):
\* the messages the body sends: create_response(request), app_->send(response).
\* The three bodies are the same and look at no state.
on_request(req) == <<create_response(req)>>

\* What the requester of `req`, received in lifecycle state `state`, has got
\* once the messages `sent` are out
Outcome(req, state, handled, sent) ==
    [request |-> req, state |-> state, handled |-> handled, sent |-> sent,
     kind |-> IF sent = <<>> THEN "none" ELSE "response"]

\* A request for a method with a handler arrives while the application is
\* started, and waits for the dispatch loop
Svc_receive ==
    /\ service = "BMSService"
    /\ svc_fault # "crashed"
    /\ Cardinality(svc_pending) < MaxPending
    /\ \E req \in SvcRequests :
        /\ Dispatched(req)
        /\ req \notin svc_pending
        /\ svc_pending' = svc_pending \cup {req}
    /\ UNCHANGED <<service, bms_vars, motor_vars, tire_vars, handler_vars, ml_vars,
                   thread_vars, app_, app_handlers, app_offered, app_run, init_result, app_calls,
                   svc_fault, svc_response, svc_inflight, svc_stops>>

\* init() has registered `handler` for the service, instance and method of req
RegisteredFor(req, handler) ==
    \E c \in Range(app_calls) :
        /\ c.call = "register_message_handler"
        /\ c.service = req.service
        /\ c.instance = req.instance
        /\ c.method = req.method
        /\ c.handler = handler

\* The dispatch loop calls the handler registered for a waiting request, one
\* call at a time: the handler builds its response
Svc_call(req, handler) ==
    /\ service = "BMSService"
    /\ svc_fault # "crashed"
    /\ svc_inflight = <<>>
    /\ req \in svc_pending
    /\ Dispatched(req)
    /\ svc_pending' = svc_pending \ {req}
    /\ svc_inflight' =
          <<[request |-> req, state |-> Lifecycle, handler |-> handler,
             sends |-> on_request(req)]>>
    /\ svc_response' = <<>>
    /\ UNCHANGED <<service, bms_vars, motor_vars, tire_vars, handler_vars, ml_vars,
                   thread_vars, app_, app_handlers, app_offered, app_run, init_result, app_calls,
                   svc_fault, svc_stops>>

Svc_on_getbatterystatus ==
    \E req \in SvcRequests :
        /\ RegisteredFor(req, "on_getbatterystatus")
        /\ Svc_call(req, "on_getbatterystatus")

Svc_on_getcellvoltages ==
    \E req \in SvcRequests :
        /\ RegisteredFor(req, "on_getcellvoltages")
        /\ Svc_call(req, "on_getcellvoltages")

Svc_on_getestimatedrange ==
    \E req \in SvcRequests :
        /\ RegisteredFor(req, "on_getestimatedrange")
        /\ Svc_call(req, "on_getestimatedrange")

\* ... and sends it, app_->send(response), and returns
Svc_send ==
    /\ service = "BMSService"
    /\ svc_fault # "crashed"
    /\ svc_inflight # <<>>
    /\ svc_response' =
          <<Outcome(svc_inflight[1].request, svc_inflight[1].state, TRUE,
                    svc_inflight[1].sends)>>
    /\ svc_inflight' = <<>>
    /\ UNCHANGED <<service, bms_vars, motor_vars, tire_vars, handler_vars, ml_vars,
                   thread_vars, app_, app_handlers, app_offered, app_run, init_result, app_calls,
                   svc_fault, svc_pending, svc_stops>>

\* A request that no handler is run for: the service sends nothing
Svc_undispatched_request ==
    /\ service = "BMSService"
    /\ svc_fault # "crashed"
    /\ \E req \in SvcRequests :
        /\ ~Dispatched(req)
        /\ svc_response' = <<Outcome(req, Lifecycle, FALSE, <<>>)>>
    /\ UNCHANGED <<service, bms_vars, motor_vars, tire_vars, handler_vars, ml_vars,
                   thread_vars, app_, app_handlers, app_offered, app_run, init_result, app_calls,
                   svc_fault, svc_pending, svc_inflight, svc_stops>>

---------------------------------------------------------------------------
(* BMSDiagnosticServiceML *)

\* The driving_mode field of a request
DrivingModes == {0, 1, 2, 3, 255}

\* get_estimated_range: range_km = 100.0f; if (driving_mode != 1) range_km = 0.0f
ml_get_estimated_range(driving_mode) == IF driving_mode # 1 THEN F(0) ELSE F(10000)

\* start_service(server): throws for a null server, else registers the event
\* and the methods 1 and 3
ML_start_service ==
    /\ service = "BMSML"
    /\ \E server \in {"null", "server"} :
        IF server = "null"
        THEN /\ ml_response' = <<[kind |-> "thrown", what |-> "invalid_argument"]>>
             /\ UNCHANGED ml_methods
        ELSE /\ ml_methods' = {GETBATTERYSTATUS_ID, GETESTIMATEDRANGE_ID}
             /\ ml_response' = <<>>
    /\ UNCHANGED <<service, bms_vars, motor_vars, tire_vars, handler_vars, svc_vars,
                   thread_vars, ml_session, gate>>

\* get_estimated_range(request): the field driving_mode is <<m>>, or <<>> when
\* the request has none and get_field throws into the catch
ML_get_estimated_range ==
    /\ service = "BMSML"
    /\ GETESTIMATEDRANGE_ID \in ml_methods
    /\ \E field \in {<<>>} \cup {<<m>> : m \in DrivingModes} :
        ml_response' =
            IF field = <<>>
            THEN <<[kind |-> "response", method |-> GETESTIMATEDRANGE_ID,
                    return_code |-> "NOT_OK", driving_mode |-> field, range_km |-> <<>>]>>
            ELSE <<[kind |-> "response", method |-> GETESTIMATEDRANGE_ID,
                    return_code |-> "OK", driving_mode |-> field,
                    range_km |-> <<ml_get_estimated_range(field[1])>>]>>
    /\ UNCHANGED <<service, bms_vars, motor_vars, tire_vars, handler_vars, svc_vars,
                   thread_vars, ml_methods, ml_session, gate>>

\* init(model_path): the session is made, or making it throws Ort::Exception,
\* which init() logs and throws on to its caller
ML_init ==
    /\ service = "BMSML"
    /\ \E made \in BOOLEAN :
        IF made
        THEN /\ ml_session' = "session"
             /\ ml_response' = <<>>
        ELSE /\ ml_response' = <<[kind |-> "thrown", what |-> "Ort::Exception"]>>
             /\ UNCHANGED ml_session
    /\ UNCHANGED <<service, bms_vars, motor_vars, tire_vars, handler_vars, svc_vars,
                   thread_vars, ml_methods, gate>>

\* What the model may return as state of charge
SocOutputs == {NaN, F(0), F(85)}

\* get_battery_status(request) with the return code OK: the fields set after a
\* successful session->Run
ml_status_fields(soc) ==
    [soc |-> soc, voltage |-> F(42000), current |-> F(-1000), temperature |-> F(3000),
     health_status |-> 0]

\* get_battery_status(request).  session->Run throws Ort::Exception (the
\* inference fails, run = <<>>) or gives the state of charge; the catch sets NOT_OK and no
\* field.  With no session (init() not called, or failed) session->Run is a
\* call through a null pointer: the process ends there, or it goes on with
\* whatever the call left.
ML_get_battery_status ==
    /\ service = "BMSML"
    /\ GETBATTERYSTATUS_ID \in ml_methods
    /\ \E run \in {<<>>} \cup {<<soc>> : soc \in SocOutputs} :
        ml_response' \in
            IF ml_session = "null"
            THEN {<<[kind |-> "crashed", what |-> "null session"]>>,
                  <<[kind |-> "response", method |-> GETBATTERYSTATUS_ID,
                     return_code |-> "OK", inference |-> "failed",
                     driving_mode |-> <<>>, range_km |-> <<>>,
                     fields |-> <<ml_status_fields(NaN)>>]>>}
            ELSE IF run = <<>>
            THEN {<<[kind |-> "response", method |-> GETBATTERYSTATUS_ID,
                     return_code |-> "NOT_OK", inference |-> "failed",
                     driving_mode |-> <<>>, range_km |-> <<>>, fields |-> <<>>]>>}
            ELSE {<<[kind |-> "response", method |-> GETBATTERYSTATUS_ID,
                     return_code |-> "OK", inference |-> "ok",
                     driving_mode |-> <<>>, range_km |-> <<>>,
                     fields |-> <<ml_status_fields(run[1])>>]>>}
    /\ UNCHANGED <<service, bms_vars, motor_vars, tire_vars, handler_vars, svc_vars,
                   thread_vars, ml_methods, ml_session, gate>>

---------------------------------------------------------------------------
(* autoforge::ml::TireFailurePrediction (ml/tire_failure_inference.hpp)      *)

\* constexpr float CRITICAL_THRESHOLD = 0.7f, in hundredths
CRITICAL_THRESHOLD == 70

\* What the model may put in a failure probability
Probabilities == {NaN, F(0), F(70), F(71)}
Predictions ==
    [failure_prob_fl : Probabilities, failure_prob_fr : Probabilities,
     failure_prob_rl : Probabilities, failure_prob_rr : Probabilities]

\* is_any_critical with >= for >
is_any_critical_inclusive(prediction) ==
    \/ Ge(prediction.failure_prob_fl, CRITICAL_THRESHOLD)
    \/ Ge(prediction.failure_prob_fr, CRITICAL_THRESHOLD)
    \/ Ge(prediction.failure_prob_rl, CRITICAL_THRESHOLD)
    \/ Ge(prediction.failure_prob_rr, CRITICAL_THRESHOLD)

\* TireFailurePrediction::is_any_critical()
is_any_critical(prediction) ==
    \/ Gt(prediction.failure_prob_fl, CRITICAL_THRESHOLD)
    \/ Gt(prediction.failure_prob_fr, CRITICAL_THRESHOLD)
    \/ Gt(prediction.failure_prob_rl, CRITICAL_THRESHOLD)
    \/ Gt(prediction.failure_prob_rr, CRITICAL_THRESHOLD)

\* The advisory composition: a critical prediction raises NORMAL to WARNING and
\* WARNING to CRITICAL; no code under src/ composes the two, the example main
\* only prints the verdict
GateRaise(level, critical) ==
    IF critical /\ level \in {NORMAL, WARNING} THEN level + 1 ELSE level

\* predict(input) returns the model's output, whatever it is, beside a
\* rule-derived level
TireML_predict ==
    /\ service = "TireML"
    /\ \E prediction \in Predictions, level \in {NORMAL, WARNING, CRITICAL} :
        gate' = <<[level |-> level, prediction |-> prediction,
                   critical |-> is_any_critical(prediction),
                   combined |-> GateRaise(level, is_any_critical(prediction))]>>
    /\ UNCHANGED <<service, bms_vars, motor_vars, tire_vars, handler_vars, svc_vars,
                   thread_vars, ml_methods, ml_response, ml_session>>

---------------------------------------------------------------------------
(* TirePressureDiagnosticService with two threads: setTirePressures writes   *)
(* the four members one by one, GetTireStatus copies them one by one, and   *)
(* nothing orders the steps of the one against the steps of the other.      *)

\* The members in the order both functions go through them
Fields == <<"fl", "fr", "rl", "rr">>

\* The pressures of main's call, setTirePressures(3.0, 3.5, 2.8, 2.9), and a
\* second snapshot that differs from it in every member
MainPressures == [fl |-> F(300), fr |-> F(350), rl |-> F(280), rr |-> F(290)]
ThreadSnapshots == {MainPressures, [fl |-> F(220), fr |-> F(220), rl |-> F(220), rr |-> F(220)]}

\* setTirePressures(fl, fr, rl, rr): the call begins and writes tire_pressure_fl
Threads_setTirePressures_first ==
    /\ service = "TireThreads"
    /\ set_pc = 0
    /\ \E args \in ThreadSnapshots :
        /\ set_args' = <<args>>
        /\ tire_pressure' = [tire_pressure EXCEPT !.fl = args.fl]
    /\ set_pc' = 1
    /\ tire_written' = TRUE
    /\ UNCHANGED <<service, bms_vars, motor_vars, handler_vars, svc_vars, ml_vars,
                   tire_warning, tire_status, get_buf, tire_history>>

\* ... writes the next member, and returns after the fourth
Threads_setTirePressures_next ==
    /\ service = "TireThreads"
    /\ set_pc \in 1..3
    /\ tire_pressure' =
          [tire_pressure EXCEPT ![Fields[set_pc + 1]] = set_args[1][Fields[set_pc + 1]]]
    /\ IF set_pc = 3
       THEN /\ set_pc' = 0
            /\ set_args' = <<>>
            /\ tire_history' = tire_history \cup {set_args[1]}
       ELSE /\ set_pc' = set_pc + 1
            /\ UNCHANGED <<set_args, tire_history>>
    /\ UNCHANGED <<service, bms_vars, motor_vars, handler_vars, svc_vars, ml_vars,
                   tire_written, tire_warning, tire_status, get_buf>>

\* GetTireStatus(): copies the next member into status, and returns the status
\* after the fourth
Threads_GetTireStatus_copy ==
    /\ service = "TireThreads"
    /\ LET v == tire_pressure[Fields[Len(get_buf) + 1]]
       IN  IF Len(get_buf) < 3
           THEN /\ get_buf' = Append(get_buf, v)
                /\ tire_status' = <<>>
           ELSE /\ get_buf' = <<>>
                /\ tire_status' =
                      <<[tire_pressure_fl |-> get_buf[1],
                         tire_pressure_fr |-> get_buf[2],
                         tire_pressure_rl |-> get_buf[3],
                         tire_pressure_rr |-> v,
                         failure_risk |-> calculateFailureRisk]>>
    /\ UNCHANGED <<service, bms_vars, motor_vars, handler_vars, svc_vars, ml_vars,
                   tire_pressure, tire_written, tire_warning, set_pc, set_args,
                   tire_history>>

---------------------------------------------------------------------------

Init ==
    /\ service \in Services
    /\ bms_status = SampleStatus
    /\ bms_warnings = <<>>
    /\ bms_first = <<>>
    /\ bms_prev = <<>>
    /\ someip_client_ = "null"
    /\ motor_temp = <<>>
    /\ motor_prev = <<>>
    /\ motor_sent = <<>>
    /\ motor_prev_sent = <<>>
    /\ run_events = 0
    /\ tire_pressure = [fl |-> F(0), fr |-> F(0), rl |-> F(0), rr |-> F(0)]
    /\ tire_written = FALSE
    /\ tire_warning = <<>>
    /\ tire_status = <<>>
    /\ motor_init_report = "not called"
    /\ client_ = "null"
    /\ client_handlers = {}
    /\ bms_response = <<>>
    /\ app_ = "null"
    /\ app_handlers = {}
    /\ app_offered = FALSE
    /\ app_run = "idle"
    /\ init_result = <<>>
    /\ svc_fault = "none"
    /\ svc_response = <<>>
    /\ svc_pending = {}
    /\ svc_inflight = <<>>
    /\ svc_stops = 0
    /\ app_calls = <<>>
    /\ motor_run = "idle"
    /\ ml_methods = {}
    /\ ml_response = <<>>
    /\ ml_session = "null"
    /\ gate = <<>>
    /\ set_pc = 0
    /\ set_args = <<>>
    /\ get_buf = <<>>
    /\ tire_history = {tire_pressure}

Next ==
    \/ BMS_get_battery_status
    \/ Motor_init
    \/ Motor_handle_motor_temperature
    \/ Tire_setTirePressures
    \/ Tire_emitTireWarning
    \/ Tire_GetTireStatus
    \/ BMS_init
    \/ BMS_handle_get_battery_status
    \/ BMS_handle_get_cell_voltages
    \/ BMS_handle_get_estimated_range
    \/ BMS_unrouted_request
    \/ Svc_init
    \/ Svc_start
    \/ Svc_stop
    \/ Svc_on_getbatterystatus
    \/ Svc_on_getcellvoltages
    \/ Svc_on_getestimatedrange
    \/ Svc_undispatched_request
    \/ Svc_receive
    \/ Svc_send
    \/ Motor_start
    \/ Motor_stop
    \/ ML_start_service
    \/ ML_get_estimated_range
    \/ ML_init
    \/ ML_get_battery_status
    \/ TireML_predict
    \/ Threads_setTirePressures_first
    \/ Threads_setTirePressures_next
    \/ Threads_GetTireStatus_copy

Spec == Init /\ [][Next]_vars

---------------------------------------------------------------------------
(* The battery evaluation's result, and the vocabulary of the claims *)

\* The high-current threshold of the combined-failure rule, 50 A
HIGH_CURRENT_THRESHOLD == 5000
HighCurrent(status) ==
    /\ ~status.current.nan
    /\ (IF status.current.v >= 0 THEN status.current.v ELSE 0 - status.current.v)
          > HIGH_CURRENT_THRESHOLD

\* The three conjuncts of the combined-failure rule
CombinedFailure(status) ==
    /\ Gt(status.temperature, 6000)
    /\ Lt(status.soc, 2000)
    /\ HighCurrent(status)

\* get_battery_status() has evaluated bms_status
BMSEvaluated == service = "BMS" /\ bms_first # <<>>
BMSLevel == AlertLevelOf(bms_warnings)
BMSReasons == ReasonsOf(bms_warnings)

\* The warning codes whose condition holds on `status`
TriggeredCodes(status) ==
    {c \in {LOW_BATTERY, HIGH_TEMPERATURE, CRITICAL_TEMPERATURE} :
        \/ c = LOW_BATTERY /\ IsLowBattery(status)
        \/ c = HIGH_TEMPERATURE /\ IsHighTemperature(status)
        \/ c = CRITICAL_TEMPERATURE /\ IsCriticalTemperature(status)}

\* C1: with state-of-charge >= 20, a temperature strictly above 60.0 evaluates
\* to CRITICAL and a temperature in (45.0, 60.0] to WARNING; exactly 60.0 is
\* WARNING, not CRITICAL.
C1_StrictCriticalCut ==
    (BMSEvaluated /\ Ge(bms_status.soc, 2000)) =>
        /\ Gt(bms_status.temperature, 6000) => BMSLevel = CRITICAL
        /\ (Gt(bms_status.temperature, 4500) /\ Le(bms_status.temperature, 6000))
              => BMSLevel = WARNING

\* 60.01 was evaluated first (CRITICAL), exactly 60.0 is evaluated now (WARNING)
C1_Witness ==
    /\ BMSEvaluated
    /\ bms_first[1].status.temperature = F(6001)
    /\ Ge(bms_first[1].status.soc, 2000)
    /\ AlertLevelOf(bms_first[1].warnings) = CRITICAL
    /\ bms_status.temperature = F(6000)
    /\ Ge(bms_status.soc, 2000)
    /\ BMSLevel = WARNING

\* C2: temperature > 60.0, state-of-charge < 20.0 and a current magnitude above
\* the high-current threshold evaluate to EMERGENCY.
C2_CombinedEscalation ==
    (BMSEvaluated /\ CombinedFailure(bms_status)) => BMSLevel = EMERGENCY

C4_UnderTemperature ==
    (BMSEvaluated /\ Lt(bms_status.temperature, -1000) /\ Ge(bms_status.soc, 2000)) =>
        /\ BMSLevel = WARNING
        /\ "UnderTemperature" \in BMSReasons

\* C5: a fully populated snapshot with temperature in [-10.0, 45.0] and
\* state-of-charge >= 20.0 evaluates to NORMAL with no reason, and no warning
\* is emitted.
C5_NormalRange ==
    (/\ BMSEvaluated
     /\ Ge(bms_status.temperature, -1000)
     /\ Le(bms_status.temperature, 4500)
     /\ Ge(bms_status.soc, 2000)) =>
        /\ BMSLevel = NORMAL
        /\ BMSReasons = {}
        /\ bms_warnings = <<>>

\* the upper corner of the normal range, 45.0 degrees at 20 % charge, evaluated
C5_Witness ==
    /\ BMSEvaluated
    /\ bms_status.temperature = F(4500)
    /\ bms_status.soc = F(2000)
    /\ BMSLevel = NORMAL
    /\ bms_warnings = <<>>

\* C6: a state-of-charge strictly below 20.0 gives the reason LowStateOfCharge
\* and a level of at least WARNING; at exactly 20.0 the reason is not given.
C6_LowStateOfCharge ==
    BMSEvaluated =>
        /\ Lt(bms_status.soc, 2000) =>
              ("LowStateOfCharge" \in BMSReasons /\ BMSLevel >= WARNING)
        /\ bms_status.soc = F(2000) => "LowStateOfCharge" \notin BMSReasons

\* 19.99 % was evaluated first and gave the reason, 20.0 % is evaluated now
\* and does not
C6_Witness ==
    /\ BMSEvaluated
    /\ bms_first[1].status.soc = F(1999)
    /\ "LowStateOfCharge" \in ReasonsOf(bms_first[1].warnings)
    /\ bms_status.soc = F(2000)
    /\ "LowStateOfCharge" \notin BMSReasons

C8_NeverNormal ==
    /\ (BMSEvaluated /\ (bms_status.temperature.nan \/ bms_status.soc.nan)) =>
          BMSLevel >= WARNING
    /\ (/\ service = "Tire"
        /\ tire_warning # <<>>
        /\ \/ tire_pressure.fl.nan
           \/ tire_pressure.fr.nan
           \/ tire_pressure.rl.nan
           \/ tire_pressure.rr.nan) =>
          Severity(tire_warning[1].warning_code) >= WARNING

C10_Dedupe == service = "Motor" => run_events <= 1

\* The evaluation of the latest motor reading and of the one before it
MotorLevel == AlertLevelOf(motor_events(motor_temp[1]))
MotorPrevLevel == AlertLevelOf(motor_events(motor_prev[1]))

\* C11: the first NORMAL evaluation after an elevated level emits exactly one
\* "cleared" event, further consecutive NORMAL evaluations emit nothing, and
\* nothing is emitted while the level has never been elevated.  The elevated
\* level here is one the handler has sent an event for.
C11_ClearedEvent ==
    (service = "Motor" /\ motor_prev # <<>> /\ MotorLevel = NORMAL) =>
        /\ (MotorPrevLevel > NORMAL /\ motor_prev_sent # <<>>) => Len(motor_sent) = 1
        /\ MotorPrevLevel = NORMAL => motor_sent = <<>>

\* C12: whenever two consecutive evaluations differ in level or reasons, the
\* later one emits at least one event; a return to NORMAL is such a
\* transition, and so is a fall from CRITICAL to WARNING on one reason.
C12_TransitionNotified ==
    /\ (BMSEvaluated /\ bms_prev # <<>> /\ bms_prev[1] # bms_warnings) =>
          bms_warnings # <<>>
    /\ (/\ service = "Motor"
        /\ motor_prev # <<>>
        /\ motor_prev_sent # <<>>
        /\ motor_events(motor_prev[1]) # motor_events(motor_temp[1])) =>
          motor_sent # <<>>

\* C13: requests are served only in the Running state: a request that arrives
\* while the service is Uninitialized, Offered or Stopped gets a
\* SERVICE_UNAVAILABLE error response, and never a normal payload.  The
\* requests looked at are those for a method init() has registered a handler for.
C13_UnavailableOutsideRunning ==
    (/\ service = "BMSService"
     /\ svc_response # <<>>
     /\ svc_response[1].request.service = SERVICE_ID
     /\ svc_response[1].request.method \in app_handlers
     /\ svc_response[1].state # "Running") =>
        svc_response[1].kind = "SERVICE_UNAVAILABLE"

\* One step of the lifecycle: the state stays, or moves to the next one
LifecycleStep(from, to) ==
    \/ from = to
    \/ <<from, to>> \in {<<"Uninitialized", "Offered">>, <<"Offered", "Running">>,
                         <<"Running", "Stopped">>}

\* C14: under any sequence of init() / start() / stop() calls the lifecycle
\* only moves along Uninitialized -> Offered -> Running -> Stopped, no state is
\* skipped or revisited, and start() before a successful init() neither reaches
\* Running nor faults.
C14_LifecycleOrder ==
    [][service = "BMSService" =>
          /\ svc_fault' = "none"
          /\ LifecycleStep(Lifecycle, Lifecycle')]_vars

\* C15: a request whose (service, method) pair has no registered handler always
\* produces an error response with code METHOD_NOT_FOUND (it also leaves the
\* snapshot unchanged and later requests are still served).
C15_MethodNotFound ==
    (/\ service = "BMSHandlers"
     /\ client_ = "client"
     /\ bms_response # <<>>
     /\ ~Registered(bms_response[1].request)) =>
        bms_response[1].kind = "METHOD_NOT_FOUND"

\* A malformed estimated-range payload: empty, or a selector outside {0, 1, 2}
Malformed(payload) == payload = <<>> \/ payload[1] \notin {0, 1, 2}

\* The latest request was for the estimated range and reached its handler
RangeRequested ==
    /\ service = "BMSHandlers"
    /\ bms_response # <<>>
    /\ bms_response[1].request.method = GETESTIMATEDRANGE_ID
    /\ Registered(bms_response[1].request)

\* C16: an estimated-range request with a selector outside {0, 1, 2} or with an
\* empty payload returns an INVALID_ARGUMENT error response: no default mode is
\* substituted and no estimate is returned.
C16_InvalidArgument ==
    (RangeRequested /\ Malformed(bms_response[1].request.payload)) =>
        bms_response[1].kind = "INVALID_ARGUMENT"

\* The fixed estimate of a mode: 200 km, 300..400 km, 400..600 km
FixedEstimate(mode, km) ==
    /\ mode = 0 => km = F(20000)
    /\ mode = 1 => (Ge(km, 30000) /\ Le(km, 40000))
    /\ mode = 2 => (Ge(km, 40000) /\ Le(km, 60000))

\* C17: for each selector in {0, 1, 2} the estimated-range request succeeds and
\* returns the fixed estimate of the mode (200 km, 300..400 km, 400..600 km),
\* in every service variant.
C17_FixedEstimates ==
    /\ (RangeRequested /\ ~Malformed(bms_response[1].request.payload)) =>
          /\ bms_response[1].kind = "response"
          /\ FixedEstimate(bms_response[1].request.payload[1],
                           bms_response[1].payload.range_km)
    /\ (/\ service = "BMSML"
        /\ ml_response # <<>>
        /\ ml_response[1].kind = "response"
        /\ ml_response[1].driving_mode # <<>>
        /\ ml_response[1].driving_mode[1] \in {0, 1, 2}) =>
          /\ ml_response[1].return_code = "OK"
          /\ FixedEstimate(ml_response[1].driving_mode[1], ml_response[1].range_km[1])

\* C18: in every successful status response the health field is the alert
\* level freshly computed from the snapshot that supplied the other fields, an
\* ordinal in 0..3; it is never an unset or constant value.
C18_FreshAlertLevel ==
    (/\ service = "BMSHandlers"
     /\ bms_response # <<>>
     /\ bms_response[1].kind = "response"
     /\ bms_response[1].request.method = GETBATTERYSTATUS_ID) =>
        /\ bms_response[1].payload.health_status \in NORMAL..EMERGENCY
        /\ bms_response[1].payload.health_status =
              AlertLevelOf(battery_warnings(bms_response[1].payload.status))

\* The four pressures of a TireStatus
PressuresOf(status) ==
    [fl |-> status.tire_pressure_fl, fr |-> status.tire_pressure_fr,
     rl |-> status.tire_pressure_rl, rr |-> status.tire_pressure_rr]

\* C19: no torn reads: when setTirePressures interleaves with GetTireStatus,
\* the status returned holds the pressures of one single snapshot that was
\* stored, entirely the old or entirely the new one, never a mix.
C19_NoTornRead ==
    (service = "TireThreads" /\ tire_status # <<>>) =>
        PressuresOf(tire_status[1]) \in tire_history \cup {set_args[i] : i \in 1..Len(set_args)}

\* C20: an init() that cannot acquire the transport reports failure, the
\* service stays out of Offered, no handler is registered and the service is
\* not offered.
C20_InitFailure ==
    /\ (service = "BMSService" /\ init_result # <<>> /\ app_ # "ready") =>
          /\ init_result = <<FALSE>>
          /\ app_handlers = {}
          /\ ~app_offered
          /\ Lifecycle # "Offered"
    /\ (service = "Motor" /\ motor_init_report # "not called" /\ someip_client_ = "null") =>
          motor_init_report = "failed"

SvcFairness ==
    /\ WF_vars(Svc_on_getbatterystatus)
    /\ WF_vars(Svc_on_getcellvoltages)
    /\ WF_vars(Svc_on_getestimatedrange)
    /\ WF_vars(Svc_send)

\* The vsomeip service of the BMS on its own: the program whose requests the
\* fairness above is about
SvcInit == Init /\ service = "BMSService"

SvcNext ==
    \/ Svc_init
    \/ Svc_start
    \/ Svc_stop
    \/ Svc_receive
    \/ Svc_on_getbatterystatus
    \/ Svc_on_getcellvoltages
    \/ Svc_on_getestimatedrange
    \/ Svc_send
    \/ Svc_undispatched_request

SvcFairSpec == SvcInit /\ [][SvcNext]_vars /\ SvcFairness

\* The requester of `req` has got a message for it
Answered(req) ==
    /\ svc_response # <<>>
    /\ svc_response[1].request = req
    /\ svc_response[1].sent # <<>>

\* C22: after stop(), every request that was received and not yet answered is
\* eventually answered.
C22_PendingAnswered ==
    \A req \in SvcRequests :
        (service = "BMSService" /\ app_run = "stopped" /\ req \in svc_pending)
            ~> Answered(req)

\* C23: once stop() has been called, requests yield SERVICE_UNAVAILABLE
\* until start() is called again; a request received after that start() is
\* accepted and gets its response.
C23_UnavailableUntilRestart ==
    (service = "BMSService" /\ svc_response # <<>>) =>
        /\ svc_response[1].state = "Stopped" =>
              svc_response[1].kind = "SERVICE_UNAVAILABLE"
        /\ (/\ svc_response[1].state = "Running"
            /\ svc_response[1].request.service = SERVICE_ID
            /\ svc_response[1].request.method \in app_handlers) =>
              svc_response[1].kind = "response"

\* Some failure probability of the prediction is above 0.7
ExceedsThreshold(prediction) ==
    \E q \in {prediction.failure_prob_fl, prediction.failure_prob_fr,
              prediction.failure_prob_rl, prediction.failure_prob_rr} :
        ~q.nan /\ q.v > 70

C25_FailOpen ==
    (/\ service = "BMSML"
     /\ ml_response # <<>>
     /\ ml_response[1].kind = "response"
     /\ ml_response[1].method = GETBATTERYSTATUS_ID
     /\ ml_response[1].inference = "failed") =>
        /\ ml_response[1].return_code = "OK"
        /\ ml_response[1].fields # <<>>

\* C26: every warning event triggered by a state transition is delivered at
\* least once to every handle subscribed at the time: when an evaluation
\* raises the alert level, each warning it raises is handed to the transport.
C26_WarningDelivered ==
    (/\ service = "BMS"
     /\ bms_prev # <<>>
     /\ AlertLevelOf(bms_warnings) > AlertLevelOf(bms_prev[1])) =>
        \A i \in 1..Len(bms_warnings) : emit_warning(bms_warnings[i]) # <<>>

AddressedTo(m, req) ==
    /\ m.service = req.service
    /\ m.instance = req.instance
    /\ m.method = req.method
    /\ m.client = req.client

HandlerOf(method) ==
    CASE method = 1 -> "on_getbatterystatus"
      [] method = 2 -> "on_getcellvoltages"
      [] method = 3 -> "on_getestimatedrange"
      [] OTHER -> "none"

\* C29: init() registers the handler of every declared method before it
\* offers the service.  Once the service is offered, each of the method ids
\* 0x1, 0x2, 0x3 of service 0x1001, instance 0x1 has a handler, registered
\* ahead of the offer, and a request is run by the handler of its own method.
C29_HandlersBeforeOffer ==
    service = "BMSService" =>
        /\ app_offered =>
              /\ app_handlers = {1, 2, 3}
              /\ \A m \in {1, 2, 3} :
                    \E i, j \in 1..Len(app_calls) :
                        /\ i < j
                        /\ app_calls[i] =
                              [call |-> "register_message_handler", service |-> 4097,
                               instance |-> 1, method |-> m, handler |-> HandlerOf(m)]
                        /\ app_calls[j].call = "offer_service"
                        /\ app_calls[j].service = 4097
                        /\ app_calls[j].instance = 1
              /\ \A j \in 1..Len(app_calls) :
                    app_calls[j].call = "offer_service" =>
                        \A m \in {1, 2, 3} : \E i \in 1..(j - 1) : app_calls[i].method = m
        /\ svc_inflight # <<>> =>
              svc_inflight[1].handler = HandlerOf(svc_inflight[1].request.method)

\* C29 witness: the service is offered and started, and the handler of method
\* 0x2 is running a request for method 0x2
C29_Witness ==
    /\ service = "BMSService"
    /\ app_offered
    /\ app_run = "started"
    /\ svc_inflight # <<>>
    /\ svc_inflight[1].request.method = 2
    /\ svc_inflight[1].handler = "on_getcellvoltages"

\* C30: handle_motor_temperature emits at most one event per reading and
\* picks it by severity: above 100.0 the critical event 0x0202, in
\* (85.0, 100.0] the event 0x0201, at or below 85.0 nothing.
C30_EventBySeverity ==
    (service = "Motor" /\ motor_temp # <<>>) =>
        /\ Len(motor_events(motor_temp[1])) <= 1
        /\ Gt(motor_temp[1], 10000) =>
              motor_events(motor_temp[1]) = <<MOTOR_CRITICAL_TEMPERATURE>>
        /\ (Gt(motor_temp[1], 8500) /\ Le(motor_temp[1], 10000)) =>
              motor_events(motor_temp[1]) = <<MOTOR_TEMPERATURE_HIGH>>
        /\ Le(motor_temp[1], 8500) => motor_events(motor_temp[1]) = <<>>

\* One of the four pressures is below 2.0
AnyPressureLow(p) ==
    \E q \in {p.fl, p.fr, p.rl, p.rr} : ~q.nan /\ q.v < 200

\* The pressures a and b differ by more than 0.4
DifferByMore(a, b) ==
    /\ ~a.nan
    /\ ~b.nan
    /\ (a.v - b.v > 40 \/ b.v - a.v > 40)

\* C31: emitTireWarning returns exactly one result, by priority, and leaves
\* the stored pressures unchanged: 0x0101 if any of the four pressures is
\* below 2.0, also when a pair is out of balance; otherwise 0x0102 if the
\* front pair or the rear pair differ by more than 0.4; otherwise the empty
\* warning with code 0.
C31_WarningByPriority ==
    [][(service = "Tire" /\ tire_warning' # <<>>) =>
          /\ tire_pressure' = tire_pressure
          /\ Len(tire_warning') = 1
          /\ tire_warning'[1].warning_code =
                IF AnyPressureLow(tire_pressure) THEN 257
                ELSE IF \/ DifferByMore(tire_pressure.fl, tire_pressure.fr)
                        \/ DifferByMore(tire_pressure.rl, tire_pressure.rr)
                THEN 258
                ELSE 0
      ]_vars

\* C31 witness: the front left pressure is low and the front pair is out of
\* balance as well, and emitTireWarning has returned the low-pressure warning
C31_Witness ==
    /\ service = "Tire"
    /\ tire_pressure = [fl |-> F(150), fr |-> F(300), rl |-> F(325), rr |-> F(300)]
    /\ tire_warning = <<[warning_code |-> 257, warning_message |-> "Low tire pressure"]>>

====
